---- MODULE Spec2Model ----
(***************************************************************************)
(* Model of prometheus_mcp_server/middleware.py: the two FastMCP           *)
(* middlewares StripUnknownArgumentsMiddleware and                         *)
(* ResponseMetadataMiddleware, composed around one tool call as            *)
(*   ResponseMetadataMiddleware -> StripUnknownArgumentsMiddleware -> tool *)
(* Each tool invocation is a coroutine chain; a chain gives up control     *)
(* only at its awaits (the registry lookup get_tool and call_next).        *)
(***************************************************************************)
EXTENDS Integers, Sequences, FiniteSets, TLC

\* ------------------------------------------------------------- bounds
NumCalls == 2
MaxClock == 2

Calls == 1..NumCalls

\* ------------------------------------------------------ python values
\* An optional mapping: None, or a dict (a function over a set of names).
None == [isNone |-> TRUE, val |-> [k \in {} |-> "v"]]
Some(m) == [isNone |-> FALSE, val |-> m]
EmptyMap == [k \in {} |-> "v"]

Maps(Keys, Vals) == UNION {[S -> Vals] : S \in SUBSET Keys}

\* middleware.py:10
PACKAGE_NAME == "prometheus-mcp-server"
\* middleware.py:43, 44
PACKAGE_METADATA_KEY == "_package_metadata"
TIMING_METADATA_KEY == "_timing_metadata"

\* The installed distribution's metadata, what importlib_metadata(PACKAGE_NAME)
\* yields when the class body runs (middleware.py:42).
LoadedPackageMetadata == [name |-> PACKAGE_NAME, version |-> "1.0.0"]

\* ------------------------------------------------------------- inputs
ArgNames == {"a", "b", "c"}
ArgValues == {"v1", "v2"}
ParamNames == {"a", "b", "d"}

\* context.message.arguments as the host hands it over
ArgumentInputs == {None} \cup {Some(m) : m \in Maps(ArgNames, ArgValues)}
SmallArgumentInputs == {None, Some([k \in {"a", "c"} |-> IF k = "a" THEN "v1" ELSE "v2"])}

\* tool.parameters: a JSON schema dict, with or without a "properties" entry.
\* The entry is None, a dict keyed by parameter name, or (a malformed schema)
\* a non-empty list, which has no keys().
Schema(D) == [hasProperties |-> TRUE, shape |-> "dict", names |-> D]
SchemaNoProperties == [hasProperties |-> FALSE, shape |-> "None", names |-> {}]
SchemaNoneProperties == [hasProperties |-> TRUE, shape |-> "None", names |-> {}]
SchemaListProperties == [hasProperties |-> TRUE, shape |-> "list", names |-> {"a"}]
Schemas ==
    {SchemaNoProperties, SchemaNoneProperties, SchemaListProperties}
        \cup {Schema(D) : D \in SUBSET ParamNames}

\* What get_tool hands back: a tool descriptor, or None (no descriptor).
Tool(P) == [isNone |-> FALSE, parameters |-> P]
NoTool == [isNone |-> TRUE, parameters |-> SchemaNoProperties]
ToolReplies == {NoTool} \cup {Tool(P) : P \in Schemas}
SmallToolReplies == {Tool(Schema({"a"}))}

LookupErrors == {"NotFoundError"}
ToolErrors == {"ToolError", "ValueError"}

\* Entries a result's meta map may already carry when the tool returns it.
OldEntry == [old |-> "x"]
MetaInputs ==
    {None} \cup {Some(m) : m \in Maps({"trace_id", TIMING_METADATA_KEY, PACKAGE_METADATA_KEY}, {OldEntry})}
SmallMetaInputs == {None}

\* What the next stage hands back: no result (None) or a result object with
\* its meta attribute.
NoResult == [isNone |-> TRUE, meta |-> None]
Result(m) == [isNone |-> FALSE, meta |-> m]
ResultInputs == {NoResult} \cup {Result(m) : m \in MetaInputs}
SmallResultInputs == {Result(m) : m \in SmallMetaInputs}

VARIABLES
    pc,               \* where each invocation's coroutine chain is suspended
    now,              \* time.perf_counter()
    fastmcp_context,  \* context.fastmcp_context is available
    arguments,        \* context.message.arguments
    start_time,       \* _time_operation's local start_time
    result,           \* the result object of the call: absent, or its meta
    meta_object,      \* which dict result.meta is: "none", "orig", "fresh"
    returned,         \* what ResponseMetadataMiddleware.on_call_tool gave its caller
    log,              \* the logger's records, per invocation
    lookups,          \* number of get_tool calls made
    delegated,        \* the arguments seen by the next stage, one per call_next
    meta_writes,      \* keys assigned in result.meta
    package_metadata, \* ResponseMetadataMiddleware._package_metadata
    \* what the environment supplied, kept for stating the properties
    entry_arguments, tool_reply, lookup_error, next_reply, next_error,
    entry_time, end_time

vars ==
    <<pc, now, fastmcp_context, arguments, start_time, result, meta_object,
      returned, log, lookups, delegated, meta_writes, package_metadata,
      entry_arguments, tool_reply, lookup_error, next_reply, next_error,
      entry_time, end_time>>

Pending == [kind |-> "pending", exc |-> "", ref |-> 0]
Returned(ref) == [kind |-> "return", exc |-> "", ref |-> ref]
Raised(e) == [kind |-> "raise", exc |-> e, ref |-> 0]
NoRef == 0

LogRecord(level, event, names, exc, ms) ==
    [level |-> level, event |-> event, names |-> names, exc |-> exc, ms |-> ms]

Init ==
    /\ pc = [c \in Calls |-> "idle"]
    /\ now = 0
    /\ fastmcp_context = [c \in Calls |-> FALSE]
    /\ arguments = [c \in Calls |-> None]
    /\ start_time = [c \in Calls |-> 0]
    /\ result = [c \in Calls |-> NoResult]
    /\ meta_object = [c \in Calls |-> "none"]
    /\ returned = [c \in Calls |-> Pending]
    /\ log = [c \in Calls |-> <<>>]
    /\ lookups = [c \in Calls |-> 0]
    /\ delegated = [c \in Calls |-> <<>>]
    /\ meta_writes = [c \in Calls |-> {}]
    /\ package_metadata = LoadedPackageMetadata
    /\ entry_arguments = [c \in Calls |-> None]
    /\ tool_reply = [c \in Calls |-> NoTool]
    /\ lookup_error = [c \in Calls |-> ""]
    /\ next_reply = [c \in Calls |-> NoResult]
    /\ next_error = [c \in Calls |-> ""]
    /\ entry_time = [c \in Calls |-> 0]
    /\ end_time = [c \in Calls |-> 0]

\* ------------------------------------------- StripUnknownArguments

\* ShouldFilter without the test of context.fastmcp_context
ShouldFilterIgnoresContext(ctx, args) ==
    ~args.isNone /\ DOMAIN args.val # {}

\* line 22: context.fastmcp_context and context.message.arguments
\*          and len(context.message.arguments) > 0
ShouldFilter(ctx, args) ==
    ctx /\ ~args.isNone /\ DOMAIN args.val # {}

\* line 24: tool.parameters.get("properties", None); truthy or not (line 25)
ToolArgsTruthy(P) ==
    /\ P.hasProperties
    /\ P.shape # "None"
    /\ P.names # {}

\* lines 24-25 raise AttributeError: tool is None has no .parameters, a list
\* has no .keys()
FilterRaises(tool) ==
    \/ tool.isNone
    \/ ToolArgsTruthy(tool.parameters) /\ tool.parameters.shape # "dict"

\* ExpectedArgsNames taking a schema without properties to accept anything
ExpectedArgsNamesAcceptAll(tool) ==
    IF ToolArgsTruthy(tool.parameters) THEN tool.parameters.names ELSE ArgNames

\* line 25: set(tool_args.keys()) if tool_args else set()
ExpectedArgsNames(tool) ==
    IF ToolArgsTruthy(tool.parameters) THEN tool.parameters.names ELSE {}

\* FilteredArgs with the membership test inverted
FilteredArgsInverted(args, expected) ==
    [k \in {x \in DOMAIN args : x \notin expected} |-> args[k]]

\* line 26: {k: v for k, v in arguments.items() if k in expected_args_names}
FilteredArgs(args, expected) ==
    [k \in {x \in DOMAIN args : x \in expected} |-> args[k]]

\* UnknownArgs with the operands of the difference swapped
UnknownArgsSwapped(args, expected) ==
    expected \ DOMAIN args

\* line 27: set(arguments.keys()).difference(expected_args_names)
UnknownArgs(args, expected) ==
    DOMAIN args \ expected

\* lines 28-29
UnknownArgsLog(unknown) ==
    IF unknown # {}
    THEN <<LogRecord("info", "unknown_arguments", unknown, "", 0)>>
    ELSE <<>>

\* lines 31-35
StripErrorLog(e) ==
    <<LogRecord("error", "strip_error", {}, e, 0)>>

\* line 30: context.message.arguments = filtered_args
StoreFiltered(c, filtered) ==
    [arguments EXCEPT ![c] = Some(filtered)]

\* line 36: return await call_next(context): the next stage sees the
\* context's arguments as they are now
Delegate(c, args) ==
    [delegated EXCEPT ![c] = Append(@, args)]

\* ------------------------------------------------ ResponseMetadata

\* RecordStart keeping the start time on the middleware instance, which all
\* invocations share
RecordStartShared(c) ==
    [d \in Calls |-> now]

\* line 48
RecordStart(c) ==
    [start_time EXCEPT ![c] = now]

\* DurationMs with the operands of the subtraction swapped
DurationMsSwapped(c) ==
    (start_time[c] - now) * 1000

\* lines 51, 55: (time.perf_counter() - start_time) * 1000
DurationMs(c) ==
    (now - start_time[c]) * 1000

\* EnsuredMeta resetting result.meta whether or not it was None
EnsuredMetaAlwaysFresh(m) ==
    EmptyMap

\* lines 68-69: the meta map after "if meta is None: result.meta = {}"
EnsuredMeta(m) ==
    IF m.isNone THEN EmptyMap ELSE m.val

\* lines 68-69: which dict object result.meta is afterwards
EnsuredMetaObject(m) ==
    IF m.isNone THEN "fresh" ELSE "orig"

\* lines 70-73
PackageEntry ==
    [name |-> package_metadata.name, version |-> package_metadata.version]

\* lines 74-76
TimingEntry(ms) ==
    [tool_response_time_ms |-> ms]

\* lines 70-76: the two item assignments on the meta map
Annotate(m, ms) ==
    [k \in DOMAIN m \cup {PACKAGE_METADATA_KEY, TIMING_METADATA_KEY} |->
        IF k = PACKAGE_METADATA_KEY THEN PackageEntry
        ELSE IF k = TIMING_METADATA_KEY THEN TimingEntry(ms)
        ELSE m[k]]

\* lines 70, 74: the keys assigned
AnnotatedKeys ==
    {PACKAGE_METADATA_KEY, TIMING_METADATA_KEY}

\* SkipAnnotation without the test for None
SkipAnnotationNever(r) ==
    FALSE

\* line 66: if result is None: return result
SkipAnnotation(r) ==
    r.isNone

\* ------------------------------------------------------------ actions

\* The host calls the pipeline for invocation c.  ResponseMetadataMiddleware
\* .on_call_tool (61-64) enters _time_operation (46-50), which reads the clock
\* and awaits StripUnknownArgumentsMiddleware.on_call_tool (18-23, 36): that
\* either awaits get_tool or, the guard of line 22 failing, awaits call_next.
CallTool(c, args, ctx) ==
    /\ pc[c] = "idle"
    /\ fastmcp_context' = [fastmcp_context EXCEPT ![c] = ctx]
    /\ entry_arguments' = [entry_arguments EXCEPT ![c] = args]
    /\ arguments' = [arguments EXCEPT ![c] = args]
    /\ start_time' = RecordStart(c)
    /\ entry_time' = [entry_time EXCEPT ![c] = now]
    /\ IF ShouldFilter(ctx, args)
       THEN /\ pc' = [pc EXCEPT ![c] = "get_tool"]
            /\ lookups' = [lookups EXCEPT ![c] = @ + 1]
            /\ UNCHANGED delegated
       ELSE /\ pc' = [pc EXCEPT ![c] = "call_next"]
            /\ delegated' = Delegate(c, args)
            /\ UNCHANGED lookups
    /\ UNCHANGED <<now, result, meta_object, returned, log, meta_writes,
                   package_metadata, tool_reply, lookup_error, next_reply,
                   next_error, end_time>>

\* get_tool returns (line 23); lines 24-30 run, or raise into 31-35; line 36
\* delegates.
GetToolReturns(c, tool) ==
    /\ pc[c] = "get_tool"
    /\ tool_reply' = [tool_reply EXCEPT ![c] = tool]
    /\ IF FilterRaises(tool)
       THEN /\ log' = [log EXCEPT ![c] = @ \o StripErrorLog("AttributeError")]
            /\ UNCHANGED arguments
       ELSE LET expected == ExpectedArgsNames(tool)
                filtered == FilteredArgs(arguments[c].val, expected)
                unknown == UnknownArgs(arguments[c].val, expected)
            IN /\ log' = [log EXCEPT ![c] = @ \o UnknownArgsLog(unknown)]
               /\ arguments' = StoreFiltered(c, filtered)
    /\ delegated' = Delegate(c, arguments'[c])
    /\ pc' = [pc EXCEPT ![c] = "call_next"]
    /\ UNCHANGED <<now, fastmcp_context, start_time, result, meta_object,
                   returned, lookups, meta_writes, package_metadata,
                   entry_arguments, lookup_error, next_reply, next_error,
                   entry_time, end_time>>

\* GetToolRaises without the try/except: the lookup's exception leaves
\* on_call_tool, is logged by _time_operation and reaches the caller
GetToolRaisesUncaught(c, e) ==
    /\ pc[c] = "get_tool"
    /\ lookup_error' = [lookup_error EXCEPT ![c] = e]
    /\ end_time' = [end_time EXCEPT ![c] = now]
    /\ log' = [log EXCEPT ![c] = @ \o <<LogRecord("warning", "failed", {}, e, (now - start_time[c]) * 1000)>>]
    /\ returned' = [returned EXCEPT ![c] = Raised(e)]
    /\ pc' = [pc EXCEPT ![c] = "done"]
    /\ UNCHANGED <<now, fastmcp_context, arguments, start_time, result,
                   meta_object, lookups, delegated, meta_writes,
                   package_metadata, entry_arguments, tool_reply, next_reply,
                   next_error, entry_time>>

\* get_tool raises (line 23): lines 31-35 log it, line 36 delegates.
GetToolRaises(c, e) ==
    /\ pc[c] = "get_tool"
    /\ lookup_error' = [lookup_error EXCEPT ![c] = e]
    /\ log' = [log EXCEPT ![c] = @ \o StripErrorLog(e)]
    /\ delegated' = Delegate(c, arguments[c])
    /\ pc' = [pc EXCEPT ![c] = "call_next"]
    /\ UNCHANGED <<now, fastmcp_context, arguments, start_time, result,
                   meta_object, returned, lookups, meta_writes,
                   package_metadata, entry_arguments, tool_reply, next_reply,
                   next_error, entry_time, end_time>>

\* The next stage returns r: line 36 returns it, lines 51-53 time it, lines
\* 64-80 annotate it and return it.
CallNextReturns(c, r) ==
    /\ pc[c] = "call_next"
    /\ next_reply' = [next_reply EXCEPT ![c] = r]
    /\ end_time' = [end_time EXCEPT ![c] = now]
    /\ pc' = [pc EXCEPT ![c] = "done"]
    /\ LET ms == DurationMs(c)
           completed == LogRecord("debug", "completed", {}, "", ms)
           added == LogRecord("debug", "added_metadata", {}, "", 0)
       IN IF SkipAnnotation(r)
          THEN /\ log' = [log EXCEPT ![c] = @ \o <<completed>>]
               /\ returned' = [returned EXCEPT ![c] = Returned(NoRef)]
               /\ UNCHANGED <<result, meta_object, meta_writes>>
          ELSE /\ log' = [log EXCEPT ![c] = @ \o <<completed, added>>]
               /\ result' = [result EXCEPT ![c] =
                                Result(Some(Annotate(EnsuredMeta(r.meta), ms)))]
               /\ meta_object' = [meta_object EXCEPT ![c] = EnsuredMetaObject(r.meta)]
               /\ meta_writes' = [meta_writes EXCEPT ![c] = @ \cup AnnotatedKeys]
               /\ returned' = [returned EXCEPT ![c] = Returned(c)]
    /\ UNCHANGED <<now, fastmcp_context, arguments, start_time, lookups,
                   delegated, package_metadata, entry_arguments, tool_reply,
                   lookup_error, next_error, entry_time>>

\* CallNextRaises raising a new error in place of the one caught
CallNextRaisesWrapped(c, e) ==
    /\ pc[c] = "call_next"
    /\ next_error' = [next_error EXCEPT ![c] = e]
    /\ end_time' = [end_time EXCEPT ![c] = now]
    /\ pc' = [pc EXCEPT ![c] = "done"]
    /\ log' = [log EXCEPT ![c] = @ \o <<LogRecord("warning", "failed", {}, e, (now - start_time[c]) * 1000)>>]
    /\ returned' = [returned EXCEPT ![c] = Raised("RuntimeError")]
    /\ UNCHANGED <<now, fastmcp_context, arguments, start_time, result,
                   meta_object, lookups, delegated, meta_writes,
                   package_metadata, entry_arguments, tool_reply, lookup_error,
                   next_reply, entry_time>>

\* The next stage raises e: line 36 lets it through, lines 54-59 log and
\* re-raise, line 64 lets it through.
CallNextRaises(c, e) ==
    /\ pc[c] = "call_next"
    /\ next_error' = [next_error EXCEPT ![c] = e]
    /\ end_time' = [end_time EXCEPT ![c] = now]
    /\ pc' = [pc EXCEPT ![c] = "done"]
    /\ log' = [log EXCEPT ![c] = @ \o <<LogRecord("warning", "failed", {}, e, DurationMs(c))>>]
    /\ returned' = [returned EXCEPT ![c] = Raised(e)]
    /\ UNCHANGED <<now, fastmcp_context, arguments, start_time, result,
                   meta_object, lookups, delegated, meta_writes,
                   package_metadata, entry_arguments, tool_reply, lookup_error,
                   next_reply, entry_time>>

\* The call chain is over; nothing of it is kept.
Retire(c) ==
    /\ pc[c] = "done"
    /\ pc' = [pc EXCEPT ![c] = "idle"]
    /\ fastmcp_context' = [fastmcp_context EXCEPT ![c] = FALSE]
    /\ arguments' = [arguments EXCEPT ![c] = None]
    /\ start_time' = [start_time EXCEPT ![c] = 0]
    /\ result' = [result EXCEPT ![c] = NoResult]
    /\ meta_object' = [meta_object EXCEPT ![c] = "none"]
    /\ returned' = [returned EXCEPT ![c] = Pending]
    /\ log' = [log EXCEPT ![c] = <<>>]
    /\ lookups' = [lookups EXCEPT ![c] = 0]
    /\ delegated' = [delegated EXCEPT ![c] = <<>>]
    /\ meta_writes' = [meta_writes EXCEPT ![c] = {}]
    /\ entry_arguments' = [entry_arguments EXCEPT ![c] = None]
    /\ tool_reply' = [tool_reply EXCEPT ![c] = NoTool]
    /\ lookup_error' = [lookup_error EXCEPT ![c] = ""]
    /\ next_reply' = [next_reply EXCEPT ![c] = NoResult]
    /\ next_error' = [next_error EXCEPT ![c] = ""]
    /\ entry_time' = [entry_time EXCEPT ![c] = 0]
    /\ end_time' = [end_time EXCEPT ![c] = 0]
    /\ UNCHANGED <<now, package_metadata>>

\* time.perf_counter() is monotonic: it only advances.
Tick ==
    /\ now < MaxClock
    /\ now' = now + 1
    /\ UNCHANGED <<pc, fastmcp_context, arguments, start_time, result,
                   meta_object, returned, log, lookups, delegated, meta_writes,
                   package_metadata, entry_arguments, tool_reply, lookup_error,
                   next_reply, next_error, entry_time, end_time>>

\* ------------------------------------------------------ specifications

OthersIdle(c) == \A d \in Calls \ {c} : pc[d] = "idle"

\* One invocation at a time, over the full input sets.
Next ==
    \/ \E c \in Calls, args \in ArgumentInputs, ctx \in BOOLEAN :
          OthersIdle(c) /\ CallTool(c, args, ctx)
    \/ \E c \in Calls, tool \in ToolReplies : GetToolReturns(c, tool)
    \/ \E c \in Calls, e \in LookupErrors : GetToolRaises(c, e)
    \/ \E c \in Calls, r \in ResultInputs : CallNextReturns(c, r)
    \/ \E c \in Calls, e \in ToolErrors : CallNextRaises(c, e)
    \/ \E c \in Calls : Retire(c)
    \/ Tick

Spec == Init /\ [][Next]_vars

\* Any number of invocations in flight, interleaved at their awaits.
ConcurrentNext ==
    \/ \E c \in Calls, args \in SmallArgumentInputs :
          CallTool(c, args, TRUE)
    \/ \E c \in Calls, tool \in SmallToolReplies : GetToolReturns(c, tool)
    \/ \E c \in Calls, e \in LookupErrors : GetToolRaises(c, e)
    \/ \E c \in Calls, r \in SmallResultInputs : CallNextReturns(c, r)
    \/ \E c \in Calls : CallNextRaises(c, "ToolError")
    \/ Tick

SpecConcurrent == Init /\ [][ConcurrentNext]_vars

\* ---------------------------------------------------------- properties

Started(c) == pc[c] # "idle"
Delegating(c) == pc[c] \in {"call_next", "done"}
Supplied(c) == DOMAIN entry_arguments[c].val

\* The invocation came with a non-empty argument mapping and a host context.
FilterApplies(c) ==
    /\ fastmcp_context[c]
    /\ ~entry_arguments[c].isNone
    /\ Supplied(c) # {}

\* get_tool was called and returned.
LookupSucceeded(c) ==
    /\ Delegating(c)
    /\ FilterApplies(c)
    /\ lookups[c] = 1
    /\ lookup_error[c] = ""

\* A descriptor whose schema is a dict with properties None, absent or a dict.
WellFormed(tool) ==
    /\ ~tool.isNone
    /\ tool.parameters.shape # "list"

\* The tool's declared parameter names.
Declared(tool) ==
    IF tool.parameters.hasProperties /\ tool.parameters.shape = "dict"
    THEN tool.parameters.names
    ELSE {}

Restrict(A, D) == [k \in DOMAIN A \cap D |-> A[k]]

LogOf(c, level) == SelectSeq(log[c], LAMBDA r : r.level = level)

ElapsedMs(c) == (end_time[c] - entry_time[c]) * 1000

\* C1: with non-empty arguments A, a host context and a lookup that returns a
\* tool declaring D, the arguments the next stage is given are exactly A
\* restricted to D: declared keys keep their values, others are gone, none is
\* added.
C1_FilteredToDeclared ==
    \A c \in Calls :
        (LookupSucceeded(c) /\ WellFormed(tool_reply[c])) =>
            LET kept == Restrict(entry_arguments[c].val, Declared(tool_reply[c]))
            IN /\ delegated[c] = <<Some(kept)>>
               /\ arguments[c] = Some(kept)

C1_Witness ==
    \E c \in Calls :
        /\ pc[c] = "call_next"
        /\ LookupSucceeded(c)
        /\ Supplied(c) = {"a", "b", "c"}
        /\ tool_reply[c] = Tool(Schema({"a", "b"}))
        /\ DOMAIN delegated[c][1].val = {"a", "b"}
        /\ entry_arguments[c].val["a"] # entry_arguments[c].val["b"]

\* The filter failed: the lookup raised, or what it returned made lines 24-25
\* raise.
FilterFailed(c) ==
    /\ Delegating(c)
    /\ lookups[c] = 1
    /\ \/ lookup_error[c] # ""
       \/ tool_reply[c].isNone
       \/ tool_reply[c].parameters.shape = "list"

\* C2: when the lookup or a later step of filtering raises, one error record
\* is logged, the arguments stay as on entry, the next stage is called once
\* with them, and the caller sees no error but the next stage's own.
C2_FailOpen ==
    \A c \in Calls :
        FilterFailed(c) =>
            /\ arguments[c] = entry_arguments[c]
            /\ delegated[c] = <<entry_arguments[c]>>
            /\ Len(LogOf(c, "error")) = 1
            /\ log[c][1].level = "error"
            /\ lookup_error[c] # "" => log[c][1].exc = lookup_error[c]
            /\ pc[c] = "call_next" => returned[c] = Pending
            /\ returned[c].kind = "raise" =>
                   next_error[c] # "" /\ returned[c].exc = next_error[c]

C2_Witness ==
    \E c \in Calls :
        /\ pc[c] = "done"
        /\ lookup_error[c] = "NotFoundError"
        /\ Supplied(c) = {"a", "c"}
        /\ delegated[c] = <<entry_arguments[c]>>
        /\ returned[c].kind = "return"

\* C3: when the wrapped call raises, the caller gets that same exception, one
\* warning carrying the elapsed time is logged, no result is returned and no
\* metadata is written.
C3_FailurePropagates ==
    \A c \in Calls :
        (pc[c] = "done" /\ next_error[c] # "") =>
            /\ returned[c] = Raised(next_error[c])
            /\ LogOf(c, "warning") =
                   <<LogRecord("warning", "failed", {}, next_error[c], ElapsedMs(c))>>
            /\ meta_writes[c] = {}
            /\ result[c] = NoResult
            /\ meta_object[c] = "none"

C3_Witness ==
    \E c \in Calls :
        /\ pc[c] = "done"
        /\ next_error[c] = "ValueError"
        /\ returned[c] = Raised("ValueError")
        /\ end_time[c] > entry_time[c]

\* C4: after a successful call that returned a result object, the result's
\* meta map holds the package record (name, version) and the timing record,
\* whose value is the time from the start to the end timestamp and is not
\* negative; an absent map was created first.
C4_SuccessAnnotated ==
    \A c \in Calls :
        (pc[c] = "done" /\ next_error[c] = "" /\ ~next_reply[c].isNone) =>
            /\ returned[c] = Returned(c)
            /\ ~result[c].isNone
            /\ ~result[c].meta.isNone
            /\ LET m == result[c].meta.val
               IN /\ {PACKAGE_METADATA_KEY, TIMING_METADATA_KEY} \subseteq DOMAIN m
                  /\ m[PACKAGE_METADATA_KEY] =
                         [name |-> PACKAGE_NAME, version |-> LoadedPackageMetadata.version]
                  /\ m[TIMING_METADATA_KEY] = [tool_response_time_ms |-> ElapsedMs(c)]
                  /\ m[TIMING_METADATA_KEY].tool_response_time_ms >= 0
            /\ entry_time[c] <= end_time[c]
            /\ next_reply[c].meta.isNone => meta_object[c] = "fresh"

C4_Witness ==
    \E c \in Calls :
        /\ pc[c] = "done"
        /\ next_error[c] = ""
        /\ next_reply[c] = Result(None)
        /\ meta_object[c] = "fresh"
        /\ DOMAIN result[c].meta.val = {PACKAGE_METADATA_KEY, TIMING_METADATA_KEY}
        /\ result[c].meta.val[TIMING_METADATA_KEY].tool_response_time_ms > 0

\* C5: with empty or absent arguments, or without a host context, the filter
\* makes no lookup, leaves the arguments alone, logs nothing and delegates.
C5_NoOp ==
    \A c \in Calls :
        (Started(c) /\ ~FilterApplies(c)) =>
            /\ lookups[c] = 0
            /\ arguments[c] = entry_arguments[c]
            /\ delegated[c] = <<entry_arguments[c]>>
            /\ LogOf(c, "info") = <<>>
            /\ LogOf(c, "error") = <<>>
            /\ pc[c] = "call_next" => log[c] = <<>>

C5_Witness ==
    \E c \in Calls :
        /\ pc[c] = "call_next"
        /\ ~fastmcp_context[c]
        /\ Supplied(c) = {"a", "c"}
        /\ delegated[c] = <<entry_arguments[c]>>
        /\ lookups[c] = 0

\* C6: when the delegated call returns None, the caller gets None and nothing
\* is written to any metadata.
C6_NoneUnchanged ==
    \A c \in Calls :
        (pc[c] = "done" /\ next_error[c] = "" /\ next_reply[c].isNone) =>
            /\ returned[c] = Returned(NoRef)
            /\ meta_writes[c] = {}
            /\ result[c] = NoResult
            /\ meta_object[c] = "none"

C6_Witness ==
    \E c \in Calls :
        /\ pc[c] = "done"
        /\ next_error[c] = ""
        /\ next_reply[c] = NoResult
        /\ returned[c] = Returned(NoRef)
        /\ Len(log[c]) >= 1

\* C8: after a successful lookup an info record is logged exactly when some
\* supplied name is not declared, and it lists exactly those names.
C8_UnknownLogged ==
    \A c \in Calls :
        (LookupSucceeded(c) /\ WellFormed(tool_reply[c])) =>
            LET unknown == Supplied(c) \ Declared(tool_reply[c])
                infos == LogOf(c, "info")
            IN /\ unknown # {} <=> infos # <<>>
               /\ Len(infos) <= 1
               /\ \A i \in 1..Len(infos) :
                      /\ infos[i].event = "unknown_arguments"
                      /\ infos[i].names = unknown

C8_Witness ==
    \E c \in Calls :
        /\ LookupSucceeded(c)
        /\ Supplied(c) = {"a", "b", "c"}
        /\ tool_reply[c] = Tool(Schema({"a", "d"}))
        /\ Len(LogOf(c, "info")) = 1
        /\ LogOf(c, "info")[1].names = {"b", "c"}

\* The schema has no property listing: no "properties" entry, or None, or {}.
NoPropertyListing(tool) ==
    /\ ~tool.isNone
    /\ \/ ~tool.parameters.hasProperties
       \/ tool.parameters.shape = "None"
       \/ tool.parameters.shape = "dict" /\ tool.parameters.names = {}

\* C9: a tool whose schema has no property listing is taken to declare no
\* parameter: every supplied argument is stripped, the next stage gets an
\* empty mapping, and all supplied names are logged as unknown.
C9_NoSchemaStripsAll ==
    \A c \in Calls :
        (LookupSucceeded(c) /\ NoPropertyListing(tool_reply[c])) =>
            /\ delegated[c] = <<Some(EmptyMap)>>
            /\ LogOf(c, "info") =
                   <<LogRecord("info", "unknown_arguments", Supplied(c), "", 0)>>
            /\ LogOf(c, "error") = <<>>

C9_Witness ==
    \E c \in Calls :
        /\ LookupSucceeded(c)
        /\ tool_reply[c] = Tool(SchemaNoProperties)
        /\ Supplied(c) = {"a", "b"}
        /\ delegated[c] = <<Some(EmptyMap)>>

\* C10: when the result already has a meta map, the same result object is
\* returned with that same map; entries under other keys are as they were and
\* only the two fixed keys are written, over any earlier value.
C10_OtherEntriesKept ==
    \A c \in Calls :
        (pc[c] = "done" /\ next_error[c] = "" /\ ~next_reply[c].isNone
            /\ ~next_reply[c].meta.isNone) =>
            /\ returned[c] = Returned(c)
            /\ meta_object[c] = "orig"
            /\ ~result[c].meta.isNone
            /\ meta_writes[c] = {PACKAGE_METADATA_KEY, TIMING_METADATA_KEY}
            /\ LET old == next_reply[c].meta.val
                   new == result[c].meta.val
               IN /\ DOMAIN new = DOMAIN old \cup {PACKAGE_METADATA_KEY, TIMING_METADATA_KEY}
                  /\ \A k \in DOMAIN old \ {PACKAGE_METADATA_KEY, TIMING_METADATA_KEY} :
                         new[k] = old[k]
                  /\ new[PACKAGE_METADATA_KEY] # OldEntry
                  /\ new[TIMING_METADATA_KEY] # OldEntry

C10_Witness ==
    \E c \in Calls :
        /\ pc[c] = "done"
        /\ next_reply[c] = Result(Some([k \in {"trace_id", TIMING_METADATA_KEY} |-> OldEntry]))
        /\ meta_object[c] = "orig"
        /\ result[c].meta.val["trace_id"] = OldEntry
        /\ result[c].meta.val[TIMING_METADATA_KEY] = [tool_response_time_ms |-> ElapsedMs(c)]

\* What invocation c hands to the next stage when it runs alone.
SoloDelegated(c) ==
    IF FilterApplies(c) /\ lookup_error[c] = "" /\ WellFormed(tool_reply[c])
    THEN Some(Restrict(entry_arguments[c].val, Declared(tool_reply[c])))
    ELSE entry_arguments[c]

\* The meta map invocation c's result ends with when it runs alone.
SoloMeta(c) ==
    LET old == IF next_reply[c].meta.isNone THEN EmptyMap ELSE next_reply[c].meta.val
    IN [k \in DOMAIN old \cup {PACKAGE_METADATA_KEY, TIMING_METADATA_KEY} |->
            IF k = PACKAGE_METADATA_KEY THEN LoadedPackageMetadata
            ELSE IF k = TIMING_METADATA_KEY THEN [tool_response_time_ms |-> ElapsedMs(c)]
            ELSE old[k]]

\* Every invocation's arguments, result and timing are those of its own run.
OwnOutcome ==
    \A c \in Calls :
        /\ Delegating(c) =>
               /\ delegated[c] = <<SoloDelegated(c)>>
               /\ arguments[c] = SoloDelegated(c)
               /\ start_time[c] = entry_time[c]
        /\ (pc[c] = "done" /\ next_error[c] = "" /\ ~next_reply[c].isNone) =>
               /\ returned[c] = Returned(c)
               /\ result[c] = Result(Some(SoloMeta(c)))
        /\ (pc[c] = "done" /\ next_error[c] # "") =>
               /\ returned[c] = Raised(next_error[c])
               /\ \A i \in 1..Len(LogOf(c, "warning")) :
                      LogOf(c, "warning")[i].ms = ElapsedMs(c)

\* A step that is not invocation c's leaves c's state alone, and no step
\* writes the package data.
OwnStateOnly ==
    /\ package_metadata' = package_metadata
    /\ \A c \in Calls :
           pc'[c] = pc[c] =>
               /\ arguments'[c] = arguments[c]
               /\ fastmcp_context'[c] = fastmcp_context[c]
               /\ start_time'[c] = start_time[c]
               /\ result'[c] = result[c]
               /\ meta_object'[c] = meta_object[c]
               /\ returned'[c] = returned[c]
               /\ delegated'[c] = delegated[c]
               /\ meta_writes'[c] = meta_writes[c]
               /\ log'[c] = log[c]

\* C7: with invocations interleaved at their awaits, each ends with the
\* filtered arguments, result metadata and timing value of its own run, no
\* step of one touches another's state, and the package data is never
\* written.
C7_Independent ==
    []OwnOutcome /\ [][OwnStateOnly]_vars

C7_Witness ==
    \E c, d \in Calls :
        /\ c # d
        /\ pc[c] = "done" /\ pc[d] = "done"
        /\ entry_time[c] < entry_time[d]
        /\ entry_time[d] < end_time[c]
        /\ LookupSucceeded(c) /\ LookupSucceeded(d)
        /\ ~next_reply[c].isNone /\ ~next_reply[d].isNone
        /\ next_error[c] = "" /\ next_error[d] = ""
        /\ result[c].meta.val[TIMING_METADATA_KEY]
               # result[d].meta.val[TIMING_METADATA_KEY]

====
